---- MODULE Spec2Model ----
(***************************************************************************)
(* PowerDNS provider for libdns: the reconciliation planners (mergeRRecs,  *)
(* cullRRecs, removeRecords, convertHash) and the three mutating handlers  *)
(* of Provider (AppendRecords, SetRecords, DeleteRecords).                 *)
(*                                                                         *)
(* A libdns.Record is modelled by the four fields the code reads: Name,    *)
(* Type, Value and TTL (a time.Duration, in nanoseconds).  A               *)
(* zones.ResourceRecordSet is modelled by Name, Type, TTL (seconds),       *)
(* ChangeType, Comments and Records; a zones.Record by its Content string, *)
(* the only field the code reads or writes.                                *)
(***************************************************************************)
EXTENDS Integers, Sequences, FiniteSets, TLC

VARIABLES
    zone,     \* the record sets of the zone held by the PowerDNS server
    c,        \* Provider.c: "nil" until the client has been constructed
    op,       \* "idle", or the call that has returned
    records,  \* the records argument of the call
    pZone,    \* the snapshot the call fetched, as it stands after the call
    rrsets,   \* the descriptors the call planned
    sent,     \* how many descriptors AddRecordSetToZone accepted
    err,      \* the error the call returned, "" for nil
    ret       \* the records the call returned, <<>> for nil

vars == <<zone, c, op, records, pZone, rrsets, sent, err, ret>>

---------------------------------------------------------------------------
(* Input domains.  Types are DNS RR type mnemonics and hold no ':'.        *)

Names == {"www", "mail"}
Types == {"A"}
Contents == {"a", "b"}
Second == 1000000000
Durations == {1500000000, 2000000000}
ZoneTTLs == {300}
CommentLists == {<<>>, <<"note">>}

MaxRecords == 2
MaxPrune == 3

SeqsUpTo(S, n) == UNION {[1..k -> S] : k \in 0..n}

NoRepeat(s) == \A i, j \in 1..Len(s) : i # j => s[i] # s[j]

Record == [Name : Names, Type : Types, Value : Contents, TTL : Durations]

RecordLists == SeqsUpTo(Record, MaxRecords)

\* A record set as PowerDNS serves it: at least one value, no value twice.
ValueLists == {v \in SeqsUpTo(Contents, Cardinality(Contents)) : Len(v) > 0 /\ NoRepeat(v)}

PruneContents == {"a", "b", "c"}

ZoneRRSet == [Name : Names, Type : Types, TTL : ZoneTTLs, ChangeType : {""},
              Comments : CommentLists, Records : ValueLists]

---------------------------------------------------------------------------
(* Go built-ins.                                                           *)

Min(a, b) == IF a < b THEN a ELSE b

\* make([]zones.Record, n): n zero-valued records.
make(n) == [i \in 1..n |-> ""]

\* copy(dst, src): dst after min(len(dst), len(src)) elements of src were
\* written over its head (memmove semantics: src is read as it was).
copy(dst, src) ==
    [i \in 1..Len(dst) |-> IF i <= Min(Len(dst), Len(src)) THEN src[i] ELSE dst[i]]

\* int(d.Seconds()) of a non-negative time.Duration below 2^31 ns.
TTLSeconds(d) == d \div Second

---------------------------------------------------------------------------
(* Grouping.                                                               *)

key(Name, Type) == Name \o ":" \o Type

makeLDRecHash(recs) ==
    [k \in {key(recs[i].Name, recs[i].Type) : i \in 1..Len(recs)} |->
        SelectSeq(recs, LAMBDA r : key(r.Name, r.Type) = k)]

\* delete(m, k)
delete(m, k) == [x \in (DOMAIN m) \ {k} |-> m[x]]

\* A zone snapshot holds at most one record set per key.
Zones ==
    {z \in SeqsUpTo(ZoneRRSet, Cardinality(Names \X Types)) :
        \A i, j \in 1..Len(z) :
            i # j => key(z[i].Name, z[i].Type) # key(z[j].Name, z[j].Type)}

---------------------------------------------------------------------------
(* Converter.                                                              *)

Replace == "REPLACE"
Delete == "DELETE"

\* convertOne, had it taken the TTL of the bucket's last record.
convertOneLastTTL(recs) ==
    [Name |-> recs[1].Name,
     Type |-> recs[1].Type,
     TTL |-> TTLSeconds(recs[Len(recs)].TTL),
     ChangeType |-> Replace,
     Comments |-> <<>>,
     Records |-> [i \in 1..Len(recs) |-> recs[i].Value]]

\* One iteration of convertHash's loop over a non-empty bucket.
convertOne(recs) ==
    [Name |-> recs[1].Name,
     Type |-> recs[1].Type,
     TTL |-> TTLSeconds(recs[1].TTL),
     ChangeType |-> Replace,
     Comments |-> <<>>,
     Records |-> [i \in 1..Len(recs) |-> recs[i].Value]]

\* The orders in which Go may range over the map's non-empty buckets.
mapOrders(inHash) ==
    LET D == {k \in DOMAIN inHash : Len(inHash[k]) > 0}
    IN  {o \in [1..Cardinality(D) -> D] : NoRepeat(o)}

\* convertHash: one result per iteration order of the map.
convertHash(inHash) ==
    {[i \in 1..Len(o) |-> convertOne(inHash[o[i]])] : o \in mapOrders(inHash)}

---------------------------------------------------------------------------
(* Merge Planner.                                                          *)

\* The loop "for _, rec := range recs" that appends the values not in dupes.
RECURSIVE appendNew(_, _, _, _)
appendNew(out, dupes, recs, i) ==
    IF i > Len(recs) THEN out
    ELSE IF recs[i].Value \notin dupes
         THEN appendNew(Append(out, recs[i].Value), dupes \cup {recs[i].Value}, recs, i + 1)
         ELSE appendNew(out, dupes, recs, i + 1)

\* mergeOne, had it kept the TTL of the existing record set.
mergeOneKeepingTTL(t, recs) ==
    [Name |-> t.Name,
     Type |-> t.Type,
     TTL |-> t.TTL,
     ChangeType |-> Replace,
     Comments |-> t.Comments,
     Records |-> appendNew(<<>>, {t.Records[j] : j \in 1..Len(t.Records)}, recs, 1)]

\* The body of mergeRRecs' loop for a record set t matched by the bucket recs.
mergeOne(t, recs) ==
    LET rr == [Name |-> t.Name,
               Type |-> t.Type,
               TTL |-> TTLSeconds(recs[1].TTL),
               ChangeType |-> Replace,
               Comments |-> t.Comments,
               Records |-> <<>>]
        \* rr.Records = make([]zones.Record, len(rr.Records)); copy(rr.Records, t.Records)
        copied == copy(make(Len(rr.Records)), t.Records)
        dupes == {t.Records[j] : j \in 1..Len(t.Records)}
    IN  [rr EXCEPT !.Records = appendNew(copied, dupes, recs, 1)]

\* mergeLoop, had it left the matched bucket in the map.
RECURSIVE mergeLoopKeepingBucket(_, _, _, _)
mergeLoopKeepingBucket(sets, i, inHash, out) ==
    IF i > Len(sets) THEN [rrsets |-> out, inHash |-> inHash]
    ELSE LET t == sets[i]
             k == key(t.Name, t.Type)
         IN  IF k \in DOMAIN inHash /\ Len(inHash[k]) > 0
             THEN mergeLoopKeepingBucket(sets, i + 1, inHash,
                                         Append(out, mergeOne(t, inHash[k])))
             ELSE mergeLoopKeepingBucket(sets, i + 1, inHash, out)

RECURSIVE mergeLoop(_, _, _, _)
mergeLoop(sets, i, inHash, out) ==
    IF i > Len(sets) THEN [rrsets |-> out, inHash |-> inHash]
    ELSE LET t == sets[i]
             k == key(t.Name, t.Type)
         IN  IF k \in DOMAIN inHash /\ Len(inHash[k]) > 0
             THEN mergeLoop(sets, i + 1, delete(inHash, k), Append(out, mergeOne(t, inHash[k])))
             ELSE mergeLoop(sets, i + 1, inHash, out)

\* mergeRRecs: the descriptor lists it may return (one per map order).
mergeRRecs(fullZone, recs) ==
    LET m == mergeLoop(fullZone, 1, makeLDRecHash(recs), <<>>)
    IN  {m.rrsets \o tail : tail \in convertHash(m.inHash)}

---------------------------------------------------------------------------
(* Set Pruner and Cull Planner.  A Go slice is a window on a backing       *)
(* array: arr is the backing array of the record set's Records (the        *)
(* snapshot keeps seeing all of it), n the length of the slice recs.       *)

\* deleteItem's loop, i counting down (1-based).
RECURSIVE deleteItem(_, _, _, _)
deleteItem(arr, n, i, item) ==
    IF i < 1 THEN [arr |-> arr, len |-> n]
    ELSE IF arr[i] = item
         THEN LET \* copy(recs[i:], recs[:i+1])
                  moved == copy(SubSeq(arr, i, n), SubSeq(arr, 1, i))
                  arr2 == [x \in 1..Len(arr) |->
                              IF i <= x /\ x <= n THEN moved[x - i + 1] ELSE arr[x]]
              IN  deleteItem(arr2, n - 1, i - 1, item)
         ELSE deleteItem(arr, n, i - 1, item)

RECURSIVE cullItems(_, _, _, _)
cullItems(arr, n, culls, j) ==
    IF j > Len(culls) THEN [arr |-> arr, len |-> n]
    ELSE LET d == deleteItem(arr, n, n, culls[j].Value)
         IN  cullItems(d.arr, d.len, culls, j + 1)

\* removeRecords: the record set it returns, and the backing array of the
\* argument's Records as the call leaves it.
removeRecords(rRSet, culls) ==
    LET d == cullItems(rRSet.Records, Len(rRSet.Records), culls, 1)
    IN  [rRSet |-> [rRSet EXCEPT !.Records = SubSeq(d.arr, 1, d.len)],
         backing |-> d.arr]

\* The body of cullRRecs' loop: the descriptor for the record set t.
cullOne(t, rr) ==
    IF Len(rr.Records) = 0
    THEN [Name |-> t.Name, Type |-> t.Type, TTL |-> 0, ChangeType |-> Delete,
          Comments |-> <<>>, Records |-> <<>>]
    ELSE [Name |-> t.Name, Type |-> t.Type, TTL |-> t.TTL, ChangeType |-> Replace,
          Comments |-> t.Comments, Records |-> <<>>]

RECURSIVE cullLoop(_, _, _, _)
cullLoop(sets, i, inHash, out) ==
    IF i > Len(sets) THEN [rRSets |-> out, fullZone |-> sets]
    ELSE LET t == sets[i]
             k == key(t.Name, t.Type)
         IN  IF k \in DOMAIN inHash /\ Len(inHash[k]) > 0
             THEN LET r == removeRecords(t, inHash[k])
                  IN  cullLoop([sets EXCEPT ![i].Records = r.backing], i + 1, inHash,
                               Append(out, cullOne(t, r.rRSet)))
             ELSE cullLoop(sets, i + 1, inHash, out)

\* cullRRecs: the descriptors it returns, and the snapshot as it leaves it.
cullRRecs(fullZone, recs) == cullLoop(fullZone, 1, makeLDRecHash(recs), <<>>)

---------------------------------------------------------------------------
(* The PowerDNS server behind Zones().                                     *)

RECURSIVE indexOf(_, _, _)
indexOf(sets, k, i) ==
    IF i > Len(sets) THEN 0
    ELSE IF key(sets[i].Name, sets[i].Type) = k THEN i
    ELSE indexOf(sets, k, i + 1)

\* What the server holds after it accepted one descriptor: a REPLACE sets the
\* record set of that name and type to the descriptor's TTL, comments and
\* values (creating it when absent), a DELETE removes it.
AddRecordSetToZone(sets, rec) ==
    LET i == indexOf(sets, key(rec.Name, rec.Type), 1)
        stored == [rec EXCEPT !.ChangeType = ""]
    IN  IF rec.ChangeType = Delete
        THEN IF i = 0 THEN sets
             ELSE SubSeq(sets, 1, i - 1) \o SubSeq(sets, i + 1, Len(sets))
        ELSE IF i = 0 THEN Append(sets, stored)
             ELSE [sets EXCEPT ![i] = stored]

\* updateRRs, had it gone on to the next descriptor after a failure.
RECURSIVE updateRRsGoingOn(_, _, _, _)
updateRRsGoingOn(sets, recs, i, failAt) ==
    IF i > Len(recs)
    THEN [zone |-> sets,
          sent |-> IF failAt = 0 THEN Len(recs) ELSE failAt - 1,
          err |-> IF failAt = 0 THEN "" ELSE "apply"]
    ELSE IF i = failAt THEN updateRRsGoingOn(sets, recs, i + 1, failAt)
    ELSE updateRRsGoingOn(AddRecordSetToZone(sets, recs[i]), recs, i + 1, failAt)

\* Client.updateRRs, where the server refuses the failAt-th descriptor
\* (failAt = 0: it refuses none).
RECURSIVE updateRRs(_, _, _, _)
updateRRs(sets, recs, i, failAt) ==
    IF i > Len(recs) THEN [zone |-> sets, sent |-> i - 1, err |-> ""]
    ELSE IF i = failAt THEN [zone |-> sets, sent |-> i - 1, err |-> "apply"]
    ELSE updateRRs(AddRecordSetToZone(sets, recs[i]), recs, i + 1, failAt)

\* Provider.client: the cached client, or NewClient's result.
client ==
    IF c = "nil"
    THEN {[c |-> "client", err |-> ""], [c |-> "nil", err |-> "client"]}
    ELSE {[c |-> c, err |-> ""]}

\* Client.fullZone and Client.zoneID: the zone is found, or ListZone or
\* GetZone fails or the name matches no single zone.
fullZone == {[err |-> "", sets |-> zone], [err |-> "fetch", sets |-> <<>>]}
zoneID == {"", "fetch"}

---------------------------------------------------------------------------
(* The handlers of Provider.                                               *)

\* "return nil, err" before anything was planned.
Fail(cl, e) ==
    /\ c' = cl.c
    /\ err' = e
    /\ ret' = <<>>
    /\ pZone' = <<>>
    /\ rrsets' = <<>>
    /\ sent' = 0
    /\ zone' = zone

\* updateRRs and the handler's return.
Apply(cl, recs, snapshot, plan) ==
    \E failAt \in 0..Len(plan) :
        LET u == updateRRs(zone, plan, 1, failAt)
        IN  /\ c' = cl.c
            /\ zone' = u.zone
            /\ sent' = u.sent
            /\ err' = u.err
            /\ ret' = IF u.err = "" THEN recs ELSE <<>>
            /\ pZone' = snapshot
            /\ rrsets' = plan

AppendRecords ==
    /\ op = "idle"
    /\ op' = "AppendRecords"
    /\ \E recs \in RecordLists, cl \in client, fz \in fullZone :
        /\ records' = recs
        /\ IF cl.err # "" THEN Fail(cl, cl.err)
           ELSE IF fz.err # "" THEN Fail(cl, fz.err)
           ELSE \E plan \in mergeRRecs(fz.sets, recs) : Apply(cl, recs, fz.sets, plan)

SetRecords ==
    /\ op = "idle"
    /\ op' = "SetRecords"
    /\ \E recs \in RecordLists, cl \in client, zerr \in zoneID :
        /\ records' = recs
        /\ IF cl.err # "" THEN Fail(cl, cl.err)
           ELSE IF zerr # "" THEN Fail(cl, zerr)
           ELSE \E plan \in convertHash(makeLDRecHash(recs)) : Apply(cl, recs, <<>>, plan)

DeleteRecords ==
    /\ op = "idle"
    /\ op' = "DeleteRecords"
    /\ \E recs \in RecordLists, cl \in client, fz \in fullZone :
        /\ records' = recs
        /\ IF cl.err # "" THEN Fail(cl, cl.err)
           ELSE IF fz.err # "" THEN Fail(cl, fz.err)
           ELSE LET cull == cullRRecs(fz.sets, recs)
                IN  Apply(cl, recs, cull.fullZone, cull.rRSets)

Init ==
    /\ zone \in Zones
    /\ c = "nil"
    /\ op = "idle"
    /\ records = <<>>
    /\ pZone = <<>>
    /\ rrsets = <<>>
    /\ sent = 0
    /\ err = ""
    /\ ret = <<>>

Next == AppendRecords \/ SetRecords \/ DeleteRecords

Spec == Init /\ [][Next]_vars

---------------------------------------------------------------------------
(* removeRecords on its own: pZone holds the one record set passed to it   *)
(* (any value list, repeated values included), records the culls, rrsets   *)
(* the record set it returned.                                             *)

PruneSets ==
    [Name : {"www"}, Type : {"A"}, TTL : ZoneTTLs, ChangeType : {""},
     Comments : {<<>>}, Records : SeqsUpTo(PruneContents, MaxPrune)]

PruneCulls ==
    SeqsUpTo([Name : {"www"}, Type : {"A"}, Value : PruneContents, TTL : {Second}],
             MaxRecords)

RemoveRecords ==
    /\ op = "idle"
    /\ op' = "removeRecords"
    /\ LET r == removeRecords(pZone[1], records)
       IN  /\ rrsets' = <<r.rRSet>>
           /\ pZone' = <<[pZone[1] EXCEPT !.Records = r.backing]>>
    /\ UNCHANGED <<zone, c, records, sent, err, ret>>

PruneInit ==
    /\ zone = <<>>
    /\ c = "nil"
    /\ op = "idle"
    /\ records \in PruneCulls
    /\ pZone \in {<<s>> : s \in PruneSets}
    /\ rrsets = <<>>
    /\ sent = 0
    /\ err = ""
    /\ ret = <<>>

PruneSpec == PruneInit /\ [][RemoveRecords]_vars

---------------------------------------------------------------------------
(* Vocabulary of the properties.                                           *)

\* The call fetched the zone and planned its descriptors.
Planned == err \in {"", "apply"}

\* The records of recs naming the record set (name, type), in input order.
Bucket(recs, name, type) == SelectSeq(recs, LAMBDA r : r.Name = name /\ r.Type = type)

ValuesOf(recs) == [i \in 1..Len(recs) |-> recs[i].Value]

Range(s) == {s[i] : i \in 1..Len(s)}

\* The positions of plan that hold a descriptor for (name, type).
DescriptorsFor(plan, name, type) ==
    {j \in 1..Len(plan) : plan[j].Name = name /\ plan[j].Type = type}

\* The values of vals that no record of culls names, in their order.
Survivors(vals, culls) == SelectSeq(vals, LAMBDA v : v \notin Range(ValuesOf(culls)))

FirstIndex(s, v) == CHOOSE i \in 1..Len(s) : s[i] = v /\ \A j \in 1..(i - 1) : s[j] # v

\* out is old followed by the distinct values of new that old lacks, in the
\* order in which new first names them.
IsMergeOf(out, old, new) ==
    /\ Len(out) >= Len(old)
    /\ SubSeq(out, 1, Len(old)) = old
    /\ NoRepeat(out)
    /\ Range(out) = Range(old) \cup Range(new)
    /\ \A p, q \in (Len(old) + 1)..Len(out) :
           p < q => FirstIndex(new, out[p]) < FirstIndex(new, out[q])

---------------------------------------------------------------------------
(* C10 (Set Pruner): removeRecords returns exactly the values that equal   *)
(* no removal value, in their original relative order.                     *)
C10_PrunerKeepsExactlySurvivors ==
    [][op' = "removeRecords" =>
         rrsets'[1].Records = Survivors(pZone[1].Records, records)]_vars

(* C1 (Merge Planner values): for every record set of the snapshot with a  *)
(* non-empty bucket, a REPLACE descriptor holds the existing values in     *)
(* their order, then the distinct new values in first-seen order, and no   *)
(* value twice.                                                            *)
C1_MergeKeepsExistingValues ==
    (op = "AppendRecords" /\ Planned) =>
        \A i \in 1..Len(pZone) :
            LET t == pZone[i]
                b == Bucket(records, t.Name, t.Type)
            IN  Len(b) > 0 =>
                    \E j \in DescriptorsFor(rrsets, t.Name, t.Type) :
                        /\ rrsets[j].ChangeType = Replace
                        /\ IsMergeOf(rrsets[j].Records, t.Records, ValuesOf(b))

(* C2 (Merge idempotence): after the descriptors of merge(S, D) were       *)
(* applied to S, every descriptor that merge(S1, D) emits for a record set *)
(* of S1 matched by D holds exactly that record set's values.              *)
C2_MergeIdempotent ==
    (op = "AppendRecords" /\ err = "") =>
        \A plan \in mergeRRecs(zone, records) :
            \A i \in 1..Len(zone) :
                Len(Bucket(records, zone[i].Name, zone[i].Type)) > 0 =>
                    /\ DescriptorsFor(plan, zone[i].Name, zone[i].Type) # {}
                    /\ \A j \in DescriptorsFor(plan, zone[i].Name, zone[i].Type) :
                           plan[j].Records = zone[i].Records

\* Every value of the record set t is named by a removal record of its key.
AllNamed(t, recs) ==
    /\ Len(Bucket(recs, t.Name, t.Type)) > 0
    /\ Range(t.Records) \subseteq Range(ValuesOf(Bucket(recs, t.Name, t.Type)))

\* The bucket of t is not empty and leaves at least one value of t.
SomeSurvive(t, recs) ==
    /\ Len(Bucket(recs, t.Name, t.Type)) > 0
    /\ ~(Range(t.Records) \subseteq Range(ValuesOf(Bucket(recs, t.Name, t.Type))))

(* C3 (Cull Planner, delete): a record set all of whose values are named   *)
(* by its bucket gets exactly one descriptor, and that is a DELETE.        *)
C3_CullAllGivesDelete ==
    [][(op' = "DeleteRecords" /\ Planned') =>
         \A i \in 1..Len(zone) :
             AllNamed(zone[i], records') =>
                 /\ Cardinality(DescriptorsFor(rrsets', zone[i].Name, zone[i].Type)) = 1
                 /\ \A j \in DescriptorsFor(rrsets', zone[i].Name, zone[i].Type) :
                        rrsets'[j].ChangeType = Delete]_vars

(* C4 (Cull Planner, replace): a record set with a non-empty bucket and a  *)
(* surviving value gets one REPLACE descriptor with exactly the surviving  *)
(* values in order and the existing TTL and comments.                      *)
C4_CullSomeGivesReplaceOfSurvivors ==
    [][(op' = "DeleteRecords" /\ Planned') =>
         \A i \in 1..Len(zone) :
             SomeSurvive(zone[i], records') =>
                 /\ Cardinality(DescriptorsFor(rrsets', zone[i].Name, zone[i].Type)) = 1
                 /\ \A j \in DescriptorsFor(rrsets', zone[i].Name, zone[i].Type) :
                        /\ rrsets'[j].ChangeType = Replace
                        /\ rrsets'[j].Records =
                               Survivors(zone[i].Records,
                                         Bucket(records', zone[i].Name, zone[i].Type))
                        /\ rrsets'[j].TTL = zone[i].TTL
                        /\ rrsets'[j].Comments = zone[i].Comments]_vars

(* C5 (planners leave their inputs alone): after mergeRRecs or cullRRecs   *)
(* the snapshot is record set for record set what was fetched.             *)
C5_PlannersLeaveSnapshot ==
    [][(op' \in {"AppendRecords", "DeleteRecords"} /\ Planned') => pZone' = zone]_vars

---------------------------------------------------------------------------
\* The (name, type) pairs the records name.
Groups(recs) == {<<recs[i].Name, recs[i].Type>> : i \in 1..Len(recs)}

\* The record sets of the snapshot that some record names, in snapshot order.
Matched(sets, recs) ==
    SelectSeq(sets, LAMBDA t : Len(Bucket(recs, t.Name, t.Type)) > 0)

\* s is the whole number of seconds in the duration d (the first conjunct
\* keeps s * Second within TLC's integers).
IsWholeSeconds(s, d) ==
    /\ s \in 0..(2147483647 \div Second)
    /\ (d - s * Second) \in 0..(Second - 1)

\* rr is what the Converter makes of the non-empty bucket b.
IsCreateOf(rr, b) ==
    /\ rr.Name = b[1].Name
    /\ rr.Type = b[1].Type
    /\ IsWholeSeconds(rr.TTL, b[1].TTL)
    /\ rr.ChangeType = Replace
    /\ rr.Comments = <<>>
    /\ rr.Records = ValuesOf(b)

(* C6 (Merge Planner groups): one descriptor per (name, type) group of the *)
(* records and no other; the groups matched by a record set come first, in *)
(* snapshot order; every other group follows as the Converter's descriptor.*)
C6_MergeOneDescriptorPerGroup ==
    (op = "AppendRecords" /\ Planned) =>
        LET m == Matched(pZone, records)
        IN  /\ Len(rrsets) = Cardinality(Groups(records))
            /\ \A g \in Groups(records) :
                   Cardinality(DescriptorsFor(rrsets, g[1], g[2])) = 1
            /\ Len(m) <= Len(rrsets)
            /\ \A j \in 1..Len(m) :
                   /\ rrsets[j].Name = m[j].Name
                   /\ rrsets[j].Type = m[j].Type
                   /\ rrsets[j].ChangeType = Replace
                   /\ rrsets[j].Comments = m[j].Comments
            /\ \A j \in (Len(m) + 1)..Len(rrsets) :
                   /\ \A i \in 1..Len(pZone) :
                          ~(pZone[i].Name = rrsets[j].Name /\ pZone[i].Type = rrsets[j].Type)
                   /\ IsCreateOf(rrsets[j], Bucket(records, rrsets[j].Name, rrsets[j].Type))

\* One group matched by the snapshot's record set and one that is new.
C6_Witness ==
    /\ op = "AppendRecords" /\ Planned
    /\ Len(rrsets) = 2
    /\ Len(Matched(pZone, records)) = 1
    /\ rrsets[1].Name = pZone[1].Name
    /\ rrsets[2].Name # pZone[1].Name

(* C8 (Merge Planner metadata): the descriptor of a matched record set has *)
(* the set's name, type and comments, and as TTL the whole seconds of the  *)
(* first record of its bucket.                                             *)
C8_MergeMetadata ==
    (op = "AppendRecords" /\ Planned) =>
        \A i \in 1..Len(pZone) :
            LET t == pZone[i]
                b == Bucket(records, t.Name, t.Type)
            IN  Len(b) > 0 =>
                    /\ DescriptorsFor(rrsets, t.Name, t.Type) # {}
                    /\ \A j \in DescriptorsFor(rrsets, t.Name, t.Type) :
                           /\ rrsets[j].ChangeType = Replace
                           /\ rrsets[j].Comments = t.Comments
                           /\ IsWholeSeconds(rrsets[j].TTL, b[1].TTL)

\* A commented record set whose bucket holds two records of different TTLs,
\* the first with a fraction of a second.
C8_Witness ==
    /\ op = "AppendRecords" /\ Planned
    /\ \E i \in 1..Len(pZone) :
           LET b == Bucket(records, pZone[i].Name, pZone[i].Type)
           IN  /\ Len(b) = 2
               /\ b[1].TTL = 1500000000
               /\ b[2].TTL = 2000000000
               /\ pZone[i].Comments # <<>>
               /\ rrsets[1].TTL = 1

\* The zone after the first n descriptors of plan were applied in order.
RECURSIVE AfterPrefix(_, _, _)
AfterPrefix(sets, plan, n) ==
    IF n = 0 THEN sets
    ELSE AddRecordSetToZone(AfterPrefix(sets, plan, n - 1), plan[n])

(* C7 (applying a descriptor list): descriptors are applied in list order; *)
(* when the k-th fails the zone holds exactly descriptors 1..k-1 and the   *)
(* call returns the error and no records; when the fetch or the lookup     *)
(* fails nothing is applied.                                               *)
C7_ApplyStopsAtFirstFailure ==
    [][op' \in {"AppendRecords", "SetRecords", "DeleteRecords"} =>
         /\ err' = "" =>
                /\ sent' = Len(rrsets')
                /\ zone' = AfterPrefix(zone, rrsets', Len(rrsets'))
                /\ ret' = records'
         /\ err' = "apply" =>
                /\ sent' < Len(rrsets')
                /\ zone' = AfterPrefix(zone, rrsets', sent')
                /\ ret' = <<>>
         /\ err' \in {"client", "fetch"} =>
                /\ zone' = zone
                /\ sent' = 0
                /\ ret' = <<>>]_vars

\* The second of two descriptors failed after the first changed the zone.
C7_Witness ==
    /\ err = "apply"
    /\ Len(rrsets) = 2
    /\ sent = 1
    /\ ret = <<>>
    /\ Len(zone) > 0

(* C9 (SetExact): one REPLACE per (name, type) group, made from the        *)
(* caller's records alone: name, type and TTL of the group's first record, *)
(* no comments, every value in input order, repeats kept; on success the   *)
(* zone holds exactly those values for every such key and the call returns *)
(* the caller's records.                                                   *)
C9_SetExactReplacesWholeSets ==
    (op = "SetRecords" /\ Planned) =>
        /\ Len(rrsets) = Cardinality(Groups(records))
        /\ \A g \in Groups(records) :
               /\ Cardinality(DescriptorsFor(rrsets, g[1], g[2])) = 1
               /\ \A j \in DescriptorsFor(rrsets, g[1], g[2]) :
                      IsCreateOf(rrsets[j], Bucket(records, g[1], g[2]))
        /\ err = "" =>
               /\ ret = records
               /\ \A g \in Groups(records) :
                      /\ Cardinality(DescriptorsFor(zone, g[1], g[2])) = 1
                      /\ \A i \in DescriptorsFor(zone, g[1], g[2]) :
                             /\ zone[i].Records = ValuesOf(Bucket(records, g[1], g[2]))
                             /\ zone[i].Comments = <<>>

\* The same value given twice for one key, in a zone of two record sets.
C9_Witness ==
    /\ op = "SetRecords" /\ err = ""
    /\ Len(records) = 2
    /\ records[1].Name = records[2].Name
    /\ records[1].Value = records[2].Value
    /\ records[1].TTL # records[2].TTL
    /\ Len(zone) = 2
    /\ \E i \in 1..Len(zone) : zone[i].Records = <<"a", "a">>

====
